---- MODULE Spec2Model ----
(***************************************************************************)
(* A model of the nsLTP / 8CM search tools.                                *)
(*                                                                         *)
(*   2_8CM.py  parse_fasta                    (specification Spec)         *)
(*   2_8CM.py  detect_two_or_more_8cm_motifs  (specification SpecMotif)    *)
(*   8cm.py    extract_proteins_with_eight_cysteines (SpecCount)           *)
(*                                                                         *)
(* A Python str is a sequence of one-character strings; a dict is a        *)
(* function whose DOMAIN is its key set.                                   *)
(***************************************************************************)
EXTENDS Integers, Sequences, FiniteSets, TLC

VARIABLES
    \* ---- parse_fasta (2_8CM.py) ----
    file_lines,          \* the lines `for line in f` yields, terminators kept
    idx,                 \* number of the next line the loop reads
    pc,                  \* "open" | "loop" | "done"
    proteins,            \* dict: identifier -> residues
    current_protein_id,  \* None or a str
    current_sequence,    \* list of stripped sequence lines
    result,              \* the dict parse_fasta returns (meaningful once pc = "done")
    failed,              \* TRUE when an except branch was taken
    \* ---- detect_two_or_more_8cm_motifs (2_8CM.py) ----
    proteins_data,       \* the items of the dict handed in, in iteration order
    item,                \* number of the next item the loop visits
    matches,             \* per item visited, the matches re.findall found in it
    proteins_with_multiple_motifs,
    \* ---- extract_proteins_with_eight_cysteines (8cm.py) ----
    records,             \* what SeqIO.parse yields
    rec,                 \* number of the next record the loop visits
    cpc,                 \* "loop" | "done"
    eight_cysteine_proteins,
    output               \* the records written to output_fasta_file, if any

parseVars == <<file_lines, idx, pc, proteins, current_protein_id,
               current_sequence, result, failed>>
motifVars == <<proteins_data, item, matches, proteins_with_multiple_motifs>>
countVars == <<records, rec, cpc, eight_cysteine_proteins, output>>
vars == <<parseVars, motifVars, countVars>>

(***************************************************************************)
(* Bounds of the model.                                                    *)
(***************************************************************************)
MaxLines == 4
MaxBlocks == 3
MaxRecords == 2
MaxCys == 9

(***************************************************************************)
(* Python str helpers.                                                     *)
(***************************************************************************)
\* the characters str.strip() removes (those that occur in the inputs)
Whitespace == {" ", "\t", "\n", "\r"}

RECURSIVE LStrip(_)
LStrip(s) == IF s # <<>> /\ Head(s) \in Whitespace THEN LStrip(Tail(s)) ELSE s

RECURSIVE RStrip(_)
RStrip(s) ==
    IF s # <<>> /\ s[Len(s)] \in Whitespace
    THEN RStrip(SubSeq(s, 1, Len(s) - 1))
    ELSE s

\* line.strip()
strip(s) == RStrip(LStrip(s))

\* line.startswith('>')
startswith(s, c) == s # <<>> /\ s[1] = c

\* s.split(' ')[0]: the text before the first space character
RECURSIVE SplitSpaceFirst(_)
SplitSpaceFirst(s) ==
    IF s = <<>> \/ Head(s) = " "
    THEN <<>>
    ELSE <<Head(s)>> \o SplitSpaceFirst(Tail(s))

\* "".join(list)
RECURSIVE Join(_)
Join(l) == IF l = <<>> THEN <<>> ELSE Head(l) \o Join(Tail(l))

\* Optional[str]
None == [isNone |-> TRUE, str |-> <<>>]
Some(s) == [isNone |-> FALSE, str |-> s]
\* truth value of an Optional[str] / of a list
Truthy(x) == ~x.isNone /\ x.str # <<>>

EmptyDict == <<>>
\* d[k] = v
DictSet(d, k, v) == [x \in DOMAIN d \cup {k} |-> IF x = k THEN v ELSE d[x]]

(***************************************************************************)
(* Input files: up to MaxLines lines drawn from LinePalette.               *)
(***************************************************************************)
LinePalette ==
    { <<">", "P", "\n">>,                \* header, identifier P
      <<">", "P", " ", "d", "\n">>,      \* same identifier, with a description
      <<">", "Q", "\n">>,                \* header, identifier Q
      <<">", "P", "\t", "d", "\n">>,     \* description separated by a tab
      <<">", "\n">>,                     \* header with an empty identifier
      <<"\n">>,                          \* blank line
      <<" ", "A", "\r", "\n">>,          \* sequence line, surrounding whitespace
      <<"C", " ", "K", "\n">> }          \* sequence line, inner whitespace

RECURSIVE SeqsUpTo(_, _)
SeqsUpTo(S, n) ==
    IF n = 0 THEN {<<>>}
    ELSE LET shorter == SeqsUpTo(S, n - 1)
         IN  shorter \cup {Append(s, x) : s \in {t \in shorter : Len(t) = n - 1}, x \in S}

Files == SeqsUpTo(LinePalette, MaxLines)

(***************************************************************************)
(* parse_fasta                                                             *)
(***************************************************************************)
\* Flush with a slip: an identifier already stored is not overwritten
FlushKeepFirst(p, id, cur) ==
    IF Truthy(id) /\ cur # <<>> /\ id.str \notin DOMAIN p
    THEN DictSet(p, id.str, Join(cur))
    ELSE p

\* Flush with a slip: the test for collected sequence lines is missing
FlushAnyRecord(p, id, cur) ==
    IF Truthy(id) THEN DictSet(p, id.str, Join(cur)) ELSE p

\* lines 28-29 and 37-38: store the record read so far, if there is one
Flush(p, id, cur) ==
    IF Truthy(id) /\ cur # <<>> THEN DictSet(p, id.str, Join(cur)) ELSE p

\* line 30: the identifier of a stripped header line
HeaderId(line) == SplitSpaceFirst(Tail(line))

\* AfterHeader with a slip: the list is not reset
AfterHeaderKeep(cur) == cur

\* line 31: the list of sequence lines after a header
AfterHeader(cur) == <<>>

\* OnError with a slip: the records read before the failure are returned
OnErrorPartial(p) == p

\* lines 41 and 44: what the except branches return
OnError(p) == EmptyDict

ParseInit ==
    /\ file_lines \in Files
    /\ idx = 1
    /\ pc = "open"
    /\ proteins = EmptyDict
    /\ current_protein_id = None
    /\ current_sequence = <<>>
    /\ result = EmptyDict
    /\ failed = FALSE

\* line 20: open() succeeds
Open ==
    /\ pc = "open"
    /\ pc' = "loop"
    /\ UNCHANGED <<file_lines, idx, proteins, current_protein_id,
                   current_sequence, result, failed>>
    /\ UNCHANGED <<motifVars, countVars>>

\* lines 20, 39-41: open() raises (FileNotFoundError, or any other Exception)
OpenFail ==
    /\ pc = "open"
    /\ pc' = "done"
    /\ failed' = TRUE
    /\ result' = OnError(proteins)
    /\ UNCHANGED <<file_lines, idx, proteins, current_protein_id, current_sequence>>
    /\ UNCHANGED <<motifVars, countVars>>

\* lines 21-34: one iteration of the loop
LoopStep ==
    /\ pc = "loop"
    /\ idx <= Len(file_lines)
    /\ LET line == strip(file_lines[idx])
       IN  IF line = <<>>
           THEN UNCHANGED <<proteins, current_protein_id, current_sequence>>
           ELSE IF startswith(line, ">")
           THEN /\ proteins' = Flush(proteins, current_protein_id, current_sequence)
                /\ current_protein_id' = Some(HeaderId(line))
                /\ current_sequence' = AfterHeader(current_sequence)
           ELSE /\ current_sequence' = Append(current_sequence, line)
                /\ UNCHANGED <<proteins, current_protein_id>>
    /\ idx' = idx + 1
    /\ UNCHANGED <<file_lines, pc, result, failed>>
    /\ UNCHANGED <<motifVars, countVars>>

\* lines 21, 42-44: reading the next line raises
ReadError ==
    /\ pc = "loop"
    /\ pc' = "done"
    /\ failed' = TRUE
    /\ result' = OnError(proteins)
    /\ UNCHANGED <<file_lines, idx, proteins, current_protein_id, current_sequence>>
    /\ UNCHANGED <<motifVars, countVars>>

\* lines 36-38, 46: the loop is over; store the last record and return
LoopEnd ==
    /\ pc = "loop"
    /\ idx > Len(file_lines)
    /\ proteins' = Flush(proteins, current_protein_id, current_sequence)
    /\ result' = proteins'
    /\ pc' = "done"
    /\ UNCHANGED <<file_lines, idx, current_protein_id, current_sequence, failed>>
    /\ UNCHANGED <<motifVars, countVars>>

(***************************************************************************)
(* The motif engine: re.compile(...).findall(sequence)                     *)
(***************************************************************************)
GapLo == 2
GapHi == 70
InnerGapLo == 0

Lit == [lit |-> TRUE, lo |-> 0, hi |-> 0]
Gap(lo, hi) == [lit |-> FALSE, lo |-> lo, hi |-> hi]

\* line 69: C.{2,70}C.{2,70}CC.{2,70}C.{0,70}C.{2,70}C.{2,70}C
eight_cysteine_motif_regex ==
    << Lit, Gap(GapLo, GapHi), Lit, Gap(GapLo, GapHi), Lit, Lit,
       Gap(GapLo, GapHi), Lit, Gap(InnerGapLo, GapHi), Lit,
       Gap(GapLo, GapHi), Lit, Gap(GapLo, GapHi), Lit >>

\* what '.' matches: any character but a line feed
Dot(c) == c # "\n"

\* the number of characters a greedy .{lo,hi} takes at i before backtracking:
\* up to hi, stopping at the end of s or at a character '.' does not match
DotRun(s, i, hi) ==
    LET room == IF Len(s) - i + 1 < hi THEN Len(s) - i + 1 ELSE hi
        stop == {n \in 0..(room - 1) : ~Dot(s[i + n])}
    IN  IF room <= 0 THEN 0
        ELSE IF stop = {} THEN room
        ELSE CHOOSE n \in stop : \A m \in stop : n <= m

NoMatch == [ok |-> FALSE, cys |-> <<>>, end |-> 0]

\* The backtracking matcher: elements k.. of the pattern at position i of s.
\* cys: the positions of the cysteines matched, end: the position after the match.
\* TryGap tries the repeat counts b, b-1, ..., a of the quantifier at k in that
\* order (greedy) and keeps the first one after which the rest matches.
RECURSIVE MatchFrom(_, _, _), TryGap(_, _, _, _, _)
MatchFrom(s, k, i) ==
    IF k > Len(eight_cysteine_motif_regex)
    THEN [ok |-> TRUE, cys |-> <<>>, end |-> i]
    ELSE IF eight_cysteine_motif_regex[k].lit
    THEN IF i <= Len(s) /\ s[i] = "C"
         THEN LET r == MatchFrom(s, k + 1, i + 1)
              IN  IF r.ok THEN [r EXCEPT !.cys = <<i>> \o @] ELSE NoMatch
         ELSE NoMatch
    ELSE TryGap(s, k, i, eight_cysteine_motif_regex[k].lo,
                DotRun(s, i, eight_cysteine_motif_regex[k].hi))

TryGap(s, k, i, a, b) ==
    IF a > b THEN NoMatch
    ELSE IF a = b THEN MatchFrom(s, k + 1, i + a)
    ELSE LET mid == (a + b + 1) \div 2
             r == TryGap(s, k, i, mid, b)
         IN  IF r.ok THEN r ELSE TryGap(s, k, i, a, mid - 1)

\* regex.search(s, pos): the match at the leftmost start in a..b
RECURSIVE SearchIn(_, _, _)
SearchIn(s, a, b) ==
    IF a > b THEN NoMatch
    ELSE IF a = b THEN MatchFrom(s, 1, a)
    ELSE LET mid == (a + b) \div 2
             r == SearchIn(s, a, mid)
         IN  IF r.ok THEN r ELSE SearchIn(s, mid + 1, b)

Search(s, pos) == SearchIn(s, pos, Len(s))

\* Resume with a slip: the next search starts one past the start of the match,
\* counting overlapping occurrences
ResumeOverlapping(m) == m.cys[1] + 1

\* where findall resumes after a (non-empty) match
Resume(m) == m.end

\* line 77: regex.findall(s), from pos on
RECURSIVE FindAllFrom(_, _)
FindAllFrom(s, pos) ==
    LET r == Search(s, pos)
    IN  IF r.ok THEN <<r>> \o FindAllFrom(s, Resume(r)) ELSE <<>>

findall(s) == FindAllFrom(s, 1)

(***************************************************************************)
(* Inputs of the motif engine: two proteins whose residues are made of up  *)
(* to MaxBlocks blocks of BlockPalette, split between them.                *)
(***************************************************************************)
Rep(c, n) == [i \in 1..n |-> c]

\* the shortest string the pattern matches (the CXC spacer is empty)
Motif0 == <<"C","K","K","C","K","K","C","C","K","K","C","C","K","K","C","K","K","C">>
\* the same with two residues between the cysteines of CXC
Motif2 == <<"C","K","K","C","K","K","C","C","K","K","C","K","K","C","K","K","C","K","K","C">>

BlockPalette ==
    { Motif0,
      Rep("K", GapHi),                  \* a spacer one gap can still bridge
      Rep("K", GapHi + 1) \o Motif2 }   \* a spacer no gap can bridge, then a motif

BlockSeqs == SeqsUpTo(BlockPalette, MaxBlocks)

ProteinsOf(bs, sp) ==
    << [id |-> "P1", seq |-> Join(SubSeq(bs, 1, sp))],
       [id |-> "P2", seq |-> Join(SubSeq(bs, sp + 1, Len(bs)))] >>

(***************************************************************************)
(* detect_two_or_more_8cm_motifs                                           *)
(***************************************************************************)
\* Reported with a slip: one motif is enough
ReportedFromOne(motif_count) == motif_count >= 1

\* line 80: the reporting threshold
Reported(motif_count) == motif_count >= 2

\* line 81: the value stored for a reported protein
StoredValue(motif_count) == motif_count

MotifInit ==
    /\ \E bs \in BlockSeqs : \E sp \in 0..Len(bs) : proteins_data = ProteinsOf(bs, sp)
    /\ item = 1
    /\ matches = <<>>
    /\ proteins_with_multiple_motifs = EmptyDict

\* lines 75-82: one iteration of the loop over proteins_data.items()
DetectStep ==
    /\ item <= Len(proteins_data)
    /\ LET protein_id == proteins_data[item].id
           sequence == proteins_data[item].seq
           found == findall(sequence)
           motif_count == Len(found)
       IN  /\ matches' = Append(matches, found)
           /\ proteins_with_multiple_motifs' =
                  IF Reported(motif_count)
                  THEN DictSet(proteins_with_multiple_motifs, protein_id,
                               StoredValue(motif_count))
                  ELSE proteins_with_multiple_motifs
    /\ item' = item + 1
    /\ UNCHANGED proteins_data
    /\ UNCHANGED <<parseVars, countVars>>

ParseIdle ==
    /\ file_lines = <<>>
    /\ idx = 1
    /\ pc = "done"
    /\ proteins = EmptyDict
    /\ current_protein_id = None
    /\ current_sequence = <<>>
    /\ result = EmptyDict
    /\ failed = FALSE

MotifIdle ==
    /\ proteins_data = <<>>
    /\ item = 1
    /\ matches = <<>>
    /\ proteins_with_multiple_motifs = EmptyDict

(***************************************************************************)
(* extract_proteins_with_eight_cysteines (8cm.py)                          *)
(***************************************************************************)
\* line 16: the number of cysteines a selected record has
EightCysteines == 8

\* line 15: record.seq.count('C')
RECURSIVE count(_, _)
count(s, c) ==
    IF s = <<>> THEN 0
    ELSE (IF Head(s) = c THEN 1 ELSE 0) + count(Tail(s), c)

\* Selected with a slip: eight or more cysteines
SelectedAtLeast(cysteine_count) == cysteine_count >= EightCysteines

\* line 16: the test a record passes to be selected
Selected(cysteine_count) == cysteine_count = EightCysteines

\* residues with n cysteines: packed or spaced, with or without a lowercase c
CysResidues ==
    { Join(Rep(unit, n)) \o tail :
          unit \in {<<"C">>, <<"A", "C">>}, n \in 0..MaxCys, tail \in {<<>>, <<"c">>} }

RecordLists ==
    { [i \in 1..Len(q) |-> [id |-> i, seq |-> q[i]]] : q \in SeqsUpTo(CysResidues, MaxRecords) }

CountInit ==
    /\ records \in RecordLists
    /\ rec = 1
    /\ cpc = "loop"
    /\ eight_cysteine_proteins = <<>>
    /\ output = <<>>

\* lines 14-17: one iteration of the loop over the parsed records
ExtractStep ==
    /\ cpc = "loop"
    /\ rec <= Len(records)
    /\ LET record == records[rec]
           cysteine_count == count(record.seq, "C")
       IN  eight_cysteine_proteins' =
               IF Selected(cysteine_count)
               THEN Append(eight_cysteine_proteins, record)
               ELSE eight_cysteine_proteins
    /\ rec' = rec + 1
    /\ UNCHANGED <<records, cpc, output>>
    /\ UNCHANGED <<parseVars, motifVars>>

\* lines 18-20: SeqIO.parse raises FileNotFoundError; nothing is written
ExtractNotFound ==
    /\ cpc = "loop"
    /\ rec = 1
    /\ records = <<>>
    /\ cpc' = "done"
    /\ UNCHANGED <<records, rec, eight_cysteine_proteins, output>>
    /\ UNCHANGED <<parseVars, motifVars>>

\* lines 22-28: the loop is over; write the selected records, if any
ExtractWrite ==
    /\ cpc = "loop"
    /\ rec > Len(records)
    /\ output' = eight_cysteine_proteins
    /\ cpc' = "done"
    /\ UNCHANGED <<records, rec, eight_cysteine_proteins>>
    /\ UNCHANGED <<parseVars, motifVars>>

CountIdle ==
    /\ records = <<>>
    /\ rec = 1
    /\ cpc = "done"
    /\ eight_cysteine_proteins = <<>>
    /\ output = <<>>

Init == ParseInit /\ MotifIdle /\ CountIdle
Next == Open \/ OpenFail \/ LoopStep \/ ReadError \/ LoopEnd
Spec == Init /\ [][Next]_vars

InitMotif == ParseIdle /\ MotifInit /\ CountIdle
NextMotif == DetectStep
SpecMotif == InitMotif /\ [][NextMotif]_vars

InitCount == ParseIdle /\ MotifIdle /\ CountInit
NextCount == ExtractStep \/ ExtractNotFound \/ ExtractWrite
SpecCount == InitCount /\ [][NextCount]_vars

(***************************************************************************)
(* Vocabulary of the statements about parse_fasta.                         *)
(***************************************************************************)
Min(S) == CHOOSE x \in S : \A y \in S : x <= y
Max(S) == CHOOSE x \in S : \A y \in S : x >= y

Stripped(i) == strip(file_lines[i])
IsHeader(i) == Stripped(i) # <<>> /\ Stripped(i)[1] = ">"
IsSeqLine(i) == Stripped(i) # <<>> /\ Stripped(i)[1] # ">"
Headers == {i \in 1..Len(file_lines) : IsHeader(i)}
\* the lines of the record that header h opens
RecordEnd(h) ==
    LET later == {i \in Headers : i > h}
    IN  IF later = {} THEN Len(file_lines) ELSE Min(later) - 1
SeqLinesAfter(h) == {i \in (h + 1)..RecordEnd(h) : IsSeqLine(i)}
RECURSIVE ConcatStripped(_, _)
ConcatStripped(a, b) ==
    IF a > b THEN <<>> ELSE Stripped(a) \o ConcatStripped(a + 1, b)
ResiduesAfter(h) == ConcatStripped(h + 1, RecordEnd(h))

\* the text after '>' up to, not including, the first whitespace character
RECURSIVE UpToWhitespace(_)
UpToWhitespace(s) ==
    IF s = <<>> \/ Head(s) \in Whitespace
    THEN <<>>
    ELSE <<Head(s)>> \o UpToWhitespace(Tail(s))
Token(h) == UpToWhitespace(Tail(Stripped(h)))

\* the identifier parse_fasta gives the record header h opens
IdOf(h) == HeaderId(Stripped(h))

Returned == pc = "done" /\ ~failed

(***************************************************************************)
(* C3.  Parsing round trip.  When every header of the input has a          *)
(* non-empty identifier token (the text after '>' up to the first          *)
(* whitespace character), the tokens are pairwise distinct and every       *)
(* header is followed by a non-blank sequence line, parse_fasta returns    *)
(* exactly one record per header, keyed by the header's token, whose       *)
(* residues are the record's stripped sequence lines in order.             *)
(* parse_fasta cuts the identifier at the first space only, so a header    *)
(* whose description follows a tab is keyed by the whole header text.      *)
(***************************************************************************)
WellFormed ==
    /\ \A h \in Headers : Token(h) # <<>> /\ SeqLinesAfter(h) # {}
    /\ \A h1, h2 \in Headers : h1 # h2 => Token(h1) # Token(h2)

C3_RoundTrip ==
    (Returned /\ WellFormed) =>
        /\ Cardinality(DOMAIN result) = Cardinality(Headers)
        /\ \A h \in Headers :
               /\ Token(h) \in DOMAIN result
               /\ result[Token(h)] = ResiduesAfter(h)

(***************************************************************************)
(* C4.  Duplicate identifiers.  Headers that share an identifier are the   *)
(* headers h1 < h2 with IdOf(h1) = IdOf(h2), the identifier non-empty.     *)
(*                                                                         *)
(* As stated: the returned collection has an entry for the identifier and  *)
(* it holds the residues of the later record.                              *)
(***************************************************************************)
SharedIds ==
    {IdOf(h1) : h1 \in {h \in Headers : IdOf(h) # <<>> /\
                            \E h2 \in Headers : h2 # h /\ IdOf(h2) = IdOf(h)}}
HeadersOf(id) == {h \in Headers : IdOf(h) = id}

C4_LaterRecordWins_AsStated ==
    Returned =>
        \A id \in SharedIds :
            /\ id \in DOMAIN result
            /\ result[id] = ResiduesAfter(Max(HeadersOf(id)))

(***************************************************************************)
(* C4, amended.  The entry of a shared identifier holds the residues of    *)
(* the last record with that identifier that has a non-blank sequence      *)
(* line; a later header without sequence lines leaves the earlier entry    *)
(* in place, and there is no entry when no such record has sequence lines. *)
(***************************************************************************)
WithSequence(id) == {h \in HeadersOf(id) : SeqLinesAfter(h) # {}}

C4_LastRecordWithSequenceWins ==
    Returned =>
        \A id \in SharedIds :
            IF WithSequence(id) = {}
            THEN id \notin DOMAIN result
            ELSE /\ id \in DOMAIN result
                 /\ result[id] = ResiduesAfter(Max(WithSequence(id)))

\* two records share an identifier, both have sequence lines, the residues
\* differ, and the later ones were returned
C4_Witness ==
    /\ Returned
    /\ \E id \in SharedIds :
           /\ Cardinality(WithSequence(id)) >= 2
           /\ ResiduesAfter(Min(WithSequence(id))) # ResiduesAfter(Max(WithSequence(id)))
           /\ id \in DOMAIN result
           /\ result[id] = ResiduesAfter(Max(WithSequence(id)))

(***************************************************************************)
(* C7.  Fail-soft parse.  Once open() or a read has raised, parse_fasta    *)
(* has returned, and what it returned is the empty collection, whatever    *)
(* had been stored before the failure.                                     *)
(***************************************************************************)
C7_FailSoft == failed => (pc = "done" /\ result = EmptyDict)

\* a read failed after a record had been stored
C7_Witness == failed /\ proteins # EmptyDict /\ pc = "done" /\ result = EmptyDict

(***************************************************************************)
(* C9.  Emission rule.  At every point of the parse, and in what is        *)
(* returned, every entry has a non-empty identifier and non-empty          *)
(* residues and comes from a header that is followed by a non-blank        *)
(* sequence line; an input whose non-blank lines are all headers yields    *)
(* the empty collection.                                                   *)
(***************************************************************************)
Emitted(d) ==
    \A id \in DOMAIN d :
        /\ id # <<>>
        /\ d[id] # <<>>
        /\ \E h \in Headers : IdOf(h) = id /\ SeqLinesAfter(h) # {}

C9_EmissionRule ==
    /\ Emitted(proteins)
    /\ Emitted(result)
    /\ (Returned /\ \A h \in Headers : SeqLinesAfter(h) = {}) => result = EmptyDict

\* a header with an identifier but no sequence line, beside a record that
\* was returned
C9_Witness ==
    /\ Returned
    /\ result # EmptyDict
    /\ \E h \in Headers :
           IdOf(h) # <<>> /\ SeqLinesAfter(h) = {} /\ IdOf(h) \notin DOMAIN result

(***************************************************************************)
(* C10.  Sequence lines before the first header.  They create no entry     *)
(* (nothing is stored before a header has been read) and they are not      *)
(* part of any record: the residues of every returned entry are exactly    *)
(* the stripped lines between one header with that identifier and the      *)
(* next header.                                                            *)
(***************************************************************************)
Orphans ==
    {i \in 1..Len(file_lines) : IsSeqLine(i) /\ \A h \in Headers : i < h}

C10_OrphanLinesDiscarded ==
    /\ (\A h \in Headers : h >= idx) => proteins = EmptyDict
    /\ Returned =>
           \A id \in DOMAIN result :
               \E h \in HeadersOf(id) : result[id] = ResiduesAfter(h)

\* orphan lines, then a record that was returned
C10_Witness ==
    /\ Returned
    /\ Orphans # {}
    /\ Headers # {}
    /\ IdOf(Min(Headers)) \in DOMAIN result
    /\ result[IdOf(Min(Headers))] = ResiduesAfter(Min(Headers))

(***************************************************************************)
(* Vocabulary of the statements about the motif engine.  The pattern as    *)
(* the specification writes it: eight cysteines, and for each pair of      *)
(* neighbours the least and the greatest number of residues between them.  *)
(***************************************************************************)
PatternGaps ==
    << <<2, 70>>, <<2, 70>>, <<0, 0>>, <<2, 70>>, <<0, 70>>, <<2, 70>>, <<2, 70>> >>

CysPos(s) == {p \in 1..Len(s) : s[p] = "C"}
Fits(j, p, q) == q - p - 1 >= PatternGaps[j][1] /\ q - p - 1 <= PatternGaps[j][2]

\* c, the positions of eight cysteines, is an occurrence of the pattern in s
IsOccurrence(s, c) ==
    /\ Len(c) = 8
    /\ \A j \in 1..8 : c[j] \in CysPos(s)
    /\ \A j \in 1..7 : Fits(j, c[j], c[j + 1])

\* T[j]: the positions that are the j-th cysteine of some way to finish an
\* occurrence, computed from the last cysteine back to the first
RECURSIVE FinishTable(_, _, _)
FinishTable(cp, j, T) ==
    IF j = 0 THEN T
    ELSE FinishTable(cp, j - 1,
             [T EXCEPT ![j] = {p \in cp : \E q \in T[j + 1] : Fits(j, p, q)}])
CanFinish(s) == FinishTable(CysPos(s), 7, [j \in 1..8 |-> CysPos(s)])

\* the occurrence with the longest spacers, first spacer first, whose first
\* cysteine is c[1]
RECURSIVE Longest(_, _)
Longest(T, c) ==
    IF Len(c) = 8 THEN c
    ELSE LET j == Len(c)
         IN  Longest(T, Append(c, Max({q \in T[j + 1] : Fits(j, c[j], q)})))

\* the scan: the leftmost start at or after pos, the longest spacers from
\* there, and on from the position after the occurrence
RECURSIVE ScanFrom(_, _)
ScanFrom(T, pos) ==
    LET starts == {p \in T[1] : p >= pos}
    IN  IF starts = {} THEN <<>>
        ELSE LET c == Longest(T, <<Min(starts)>>)
             IN  <<c>> \o ScanFrom(T, c[8] + 1)
Scan(s) == ScanFrom(CanFinish(s), 1)

Visited == 1..(item - 1)
SequenceOf(j) == proteins_data[j].seq
CountOf(j) == Len(matches[j])

(***************************************************************************)
(* C1.  For the residues of every protein visited, the matches findall     *)
(* returned are the occurrences the left-to-right scan with longest        *)
(* spacers finds, so the motif count is their number; every match is an    *)
(* occurrence of the pattern, it ends after its last cysteine, and each    *)
(* match starts at or after the end of the one before it.                  *)
(***************************************************************************)
C1_CountIsGreedyScan ==
    \A j \in Visited :
        LET s == SequenceOf(j)
            ms == matches[j]
        IN  /\ [n \in 1..Len(ms) |-> ms[n].cys] = Scan(s)
            /\ CountOf(j) = Len(Scan(s))
            /\ \A n \in 1..Len(ms) :
                   /\ IsOccurrence(s, ms[n].cys)
                   /\ ms[n].end = ms[n].cys[8] + 1
            /\ \A n \in 1..(Len(ms) - 1) : ms[n].end <= ms[n + 1].cys[1]

\* two matches were counted, the first with a first spacer longer than the
\* least the pattern allows
C1_Witness ==
    \E j \in Visited :
        /\ CountOf(j) >= 2
        /\ matches[j][1].cys[2] - matches[j][1].cys[1] - 1 > 2

(***************************************************************************)
(* C2.  Whenever the residues of a protein are A followed by B, where A    *)
(* and B are each, as a whole, an occurrence of the pattern, the motif     *)
(* count is at least 2.                                                    *)
(***************************************************************************)
RECURSIVE ReachTable(_, _, _)
ReachTable(cp, j, T) ==
    IF j = 8 THEN T
    ELSE ReachTable(cp, j + 1,
             [T EXCEPT ![j + 1] = {q \in cp : \E p \in T[j] : Fits(j, p, q)}])
\* s from its first to its last character is an occurrence of the pattern
WholeOccurrence(s) ==
    /\ s # <<>>
    /\ s[1] = "C"
    /\ Len(s) \in ReachTable(CysPos(s), 1, [j \in 1..8 |-> {1}])[8]

C2_ConcatenationCountsTwo ==
    \A j \in Visited :
        LET s == SequenceOf(j)
        IN  \A cut \in 1..(Len(s) - 1) :
                ( /\ s[1] = "C" /\ s[cut] = "C" /\ s[cut + 1] = "C" /\ s[Len(s)] = "C"
                  /\ WholeOccurrence(SubSeq(s, 1, cut))
                  /\ WholeOccurrence(SubSeq(s, cut + 1, Len(s))) )
                => CountOf(j) >= 2

(***************************************************************************)
(* C5.  A visited protein is in proteins_with_multiple_motifs exactly when *)
(* its motif count is at least 2, the value stored is that count, and      *)
(* nothing else is in the mapping.                                         *)
(***************************************************************************)
C5_Threshold ==
    /\ \A j \in Visited :
           LET id == proteins_data[j].id
           IN  /\ id \in DOMAIN proteins_with_multiple_motifs <=> CountOf(j) >= 2
               /\ id \in DOMAIN proteins_with_multiple_motifs =>
                      proteins_with_multiple_motifs[id] = CountOf(j)
    /\ \A id \in DOMAIN proteins_with_multiple_motifs :
           \E j \in Visited : proteins_data[j].id = id

\* a protein with three motifs is reported with 3, another one is left out
C5_Witness ==
    /\ \E id \in DOMAIN proteins_with_multiple_motifs :
           proteins_with_multiple_motifs[id] = 3
    /\ \E j \in Visited : proteins_data[j].id \notin DOMAIN proteins_with_multiple_motifs

(***************************************************************************)
(* C8.  In every match counted, each spacer, the one between the two       *)
(* cysteines of CXC included, has between 2 and 70 residues.               *)
(***************************************************************************)
C8_EverySpacerTwoToSeventy ==
    \A j \in Visited :
        \A n \in 1..Len(matches[j]) :
            \A g \in {1, 2, 4, 5, 6, 7} :
                LET c == matches[j][n].cys
                IN  c[g + 1] - c[g] - 1 \in 2..70

(***************************************************************************)
(* C6.  The records selected so far are, in their original order and       *)
(* unchanged, exactly the visited records whose residues hold the          *)
(* uppercase letter C at exactly 8 positions, and these are what is        *)
(* written once every record has been visited.                             *)
(***************************************************************************)
HasEightC(r) == Cardinality({p \in 1..Len(r.seq) : r.seq[p] = "C"}) = 8

C6_ExactlyEight ==
    /\ eight_cysteine_proteins = SelectSeq(SubSeq(records, 1, rec - 1), HasEightC)
    /\ (cpc = "done" /\ records # <<>>) => output = SelectSeq(records, HasEightC)

\* of two records, the one with 8 cysteines apart from each other and a
\* lowercase c was written, the one with 7 or 9 was not
C6_Witness ==
    /\ cpc = "done"
    /\ Len(records) = 2
    /\ Len(output) = 1
    /\ "c" \in {output[1].seq[p] : p \in 1..Len(output[1].seq)}
    /\ "A" \in {output[1].seq[p] : p \in 1..Len(output[1].seq)}
    /\ \E i \in 1..2 :
           Cardinality({p \in 1..Len(records[i].seq) : records[i].seq[p] = "C"}) \in {7, 9}

====
